---- MODULE Spec2Model ----
(***************************************************************************)
(* Credit ledger and generation orchestrator of src/src/App.js.            *)
(*                                                                         *)
(* The React component state (useState cells) of one browser session is    *)
(* kept per session; the Firestore documents (profiles, generations) are   *)
(* shared.  Every handler is cut at its awaits: the synchronous prefix of  *)
(* a handler is one action, and each awaited promise settling is one       *)
(* action that also runs the code up to the next await.  A handler reads   *)
(* user, profile and uploadedFiles from the closure of the render in which *)
(* it was invoked, so an execution carries the values it captured.         *)
(***************************************************************************)
EXTENDS Integers, Sequences, FiniteSets, TLC

\* ------------------------------------------------------------------ bounds
\* Largest stored balance the model lets a purchase reach, in units of 50.
MaxBalanceUnits == 2
\* Largest number of files one selection that is accepted holds.
MaxPick == 2
\* Largest number of GenerationRecords in the store.
MaxRecords == 1
\* Largest number of sign-in promises of one session outstanding at a time.
MaxSignIns == 2

\* --------------------------------------------------------- program constants
GENERATION_COST == 50
PURCHASE_AMOUNT == 50
MAX_UPLOADS == 5

\* ------------------------------------------------------------------ values
Sessions == {1, 2}
\* the sessions that act under Spec
LedgerSessions == {1}
Users == {"u1", "u2"}
\* the identities that sign in under Spec
LedgerUsers == {"u1"}
NoUser == "none"
\* the cached profile before any snapshot: useState(null)
NullProfile == [null |-> TRUE]
\* a profile document that does not exist: docSnap.exists() is false
Absent == [exists |-> FALSE]
NoError == <<>>

MaxCredits == MaxBalanceUnits * PURCHASE_AMOUNT
Balances == {n * PURCHASE_AMOUNT : n \in 0..MaxBalanceUnits}

Email(u) == IF u = "u1" THEN "u1@example.com" ELSE "u2@example.com"

\* faulty variant: a new profile starts with a balance
NewProfile_Bonus(u) == [userId |-> u, email |-> Email(u), credits |-> 50]

\* the document the profile listener creates for a new user
NewProfile(u) == [userId |-> u, email |-> Email(u), credits |-> 0]

ProfileDoc(u, c) == [userId |-> u, email |-> Email(u), credits |-> c]

\* the sizes of the selections offered to handleFileChange: none, the accepted
\* sizes up to MaxPick, and one selection over the limit
PickSizes == (0..MaxPick) \cup {MAX_UPLOADS + 1}

\* a selection of n files; file i is the i-th file of the FileList
FileList(n) == [i \in 1..n |-> i]

\* the outcomes of one inference call: an image part, a response without an
\* image part, a non-success status, a rejected fetch
InferenceOutcomes == {"image", "none", "status", "transport"}

\* ---------------------------------------------------------------- messages
NoImagesError == <<"Please upload at least one selfie.">>
InsufficientCreditsError == <<"You need at least 50 credits to generate headshots.">>
TooManyError == <<"You can upload a maximum of 5 images.">>
BuyFailedError == <<"Failed to add credits. Please try again.">>
EmptyResultMessage == "The AI failed to generate images. Your credits have been refunded."

\* setError(`Generation failed: ${err.message}. Refunding credits.`)
GenerationFailedError(message) == <<"Generation failed: ", message, ". Refunding credits.">>

\* err.message of the error each failing step raises
ErrorMessage(cause) ==
  CASE cause = "type" -> "TypeError"
    [] cause = "debit" -> "store write rejected"
    [] cause = "encode" -> "FileReader error"
    [] cause = "status" -> "API Error"
    [] cause = "transport" -> "Failed to fetch"
    [] cause = "empty" -> EmptyResultMessage
    [] cause = "addDoc" -> "store write rejected"

\* setError(`Failed to complete sign-in: ${error.message}. Please try again.`)
RedirectFailedError(message) == <<"Failed to complete sign-in: ", message, ". Please try again.">>
PopupFailedError == <<"Could not complete sign-in. Please check browser settings for pop-ups.">>
RedirectStartError ==
  <<"Could not start sign-in process. Please check browser settings for pop-ups or third-party cookies.">>
\* signOut(auth).catch((error) => setError(error.message))
SignOutError(message) == <<message>>

StylesFailedError == <<"Could not generate style suggestions. Please try again.">>
BioFailedError == <<"Could not generate LinkedIn bio. Please try again.">>

\* error.code of the rejections of the provider: the user abandoned the redirect,
\* the user closed the popup, the provider could not be reached
AuthErrorCodes ==
  {"auth/redirect-cancelled-by-user", "auth/popup-closed-by-user", "auth/network-request-failed"}
\* how getRedirectResult settles: a result, no result, or a rejection
RedirectResults == {"result", "null", "auth/redirect-cancelled-by-user", "auth/network-request-failed"}
\* how signInWithPopup settles: a credential or a rejection
PopupResults == {"credential", "auth/popup-closed-by-user", "auth/network-request-failed"}
\* how signInWithRedirect ends: the page is left for the provider's, or a rejection
RedirectStarts == {"navigated", "auth/network-request-failed"}

\* ------------------------------------------------------------------- state
VARIABLES
  user,           \* useState: the signed-in identity of each session
  profile,        \* useState: the cached profile of each session
  uploadedFiles,  \* useState: the upload batch of each session
  isLoading,      \* useState
  error,          \* useState
  sub,            \* the profile listener of each session
  creating,       \* the setDoc of the profile listener in flight, per session
  profiles,       \* Firestore collection 'profiles', by user id
  generations,    \* Firestore collection 'generations', in order of arrival
  gen,            \* the handleGenerate execution of each session
  buy,            \* the handleBuyCredits execution of each session
  page,           \* useState
  isAuthLoading,  \* useState
  generatedImages,\* useState: the gallery of each session
  subKey,         \* the identity the listener effect of each session last ran for
  gseen,          \* the generations listener: records of the last snapshot, -1 before
  auth,           \* the sign-in, sign-out and start-up promises of each session
  text            \* the text operations of each session and their useState cells

vars == <<user, profile, uploadedFiles, isLoading, error, sub, creating,
          profiles, generations, gen, buy,
          page, isAuthLoading, generatedImages, subKey, gseen, auth, text>>

\* the cells and promises that no ledger handler touches
uiVars == <<page, isAuthLoading, generatedImages, subKey, gseen, auth, text>>

\* an execution of handleGenerate that is not running and has left no trace
IdleGen ==
  [pc |-> "idle", user |-> NoUser, profile |-> NullProfile, files |-> <<>>,
   i |-> 0, generated |-> <<>>,
   debited |-> FALSE, calls |-> 0, yields |-> <<>>, refunds |-> 0,
   alone |-> TRUE, cause |-> "none", outcome |-> "none"]

IdleBuy == [pc |-> "idle", user |-> NoUser, profile |-> NullProfile]

\* the promises of the authentication code after mount: the first auth-state
\* callback is outstanding, the redirect timer is armed, no sign-in or sign-out
\* is under way
IdleAuth == [ready |-> FALSE, timer |-> "armed", popups |-> 0, redirects |-> 0, signout |-> "none"]

\* no text operation running; the useState cells of lines 69-73
IdleText ==
  [pc |-> "idle", isTextLoading |-> FALSE, styleSuggestions |-> <<>>,
   linkedInBio |-> "", customPrompt |-> ""]

Init ==
  /\ user = [s \in Sessions |-> NoUser]
  /\ profile = [s \in Sessions |-> NullProfile]
  /\ uploadedFiles = [s \in Sessions |-> <<>>]
  /\ isLoading = [s \in Sessions |-> FALSE]
  /\ error = [s \in Sessions |-> NoError]
  /\ sub = [s \in Sessions |-> "off"]
  /\ creating = [s \in Sessions |-> NoUser]
  /\ \E c \in Balances \cup {-1} :
       profiles = [u \in Users |->
                     IF u \in LedgerUsers /\ c >= 0 THEN ProfileDoc(u, c) ELSE Absent]
  /\ generations = <<>>
  /\ gen = [s \in Sessions |-> IdleGen]
  /\ buy = [s \in Sessions |-> IdleBuy]
  /\ page = [s \in Sessions |-> "landing"]
  /\ isAuthLoading = [s \in Sessions |-> TRUE]
  /\ generatedImages = [s \in Sessions |-> <<>>]
  /\ subKey = [s \in Sessions |-> NoUser]
  /\ gseen = [s \in Sessions |-> -1]
  /\ auth = [s \in Sessions |-> IdleAuth]
  /\ text = [s \in Sessions |-> IdleText]


\* -------------------------------------------------------- handler helpers
\* faulty variant: the length check compares with the wrong bound
NoImages_Never(files) == Len(files) < 0

\* handleGenerate, first check: uploadedFiles.length === 0
NoImages(files) == Len(files) = 0

\* faulty variant: the credit check compares with 0 instead of the cost
InsufficientCredits_Zero(p) == p # NullProfile /\ p.credits < 0

\* handleGenerate, second check: profile?.credits < 50.  With no cached profile
\* the comparison is undefined < 50, which is false.
InsufficientCredits(p) == p # NullProfile /\ p.credits < GENERATION_COST

\* faulty variant: the debit takes twice the cost the check asked for
DebitValue_Double(p) == p.credits - 2 * GENERATION_COST

\* the balance the debit writes: profile.credits - 50
DebitValue(p) == p.credits - GENERATION_COST

\* faulty variant: the refund writes the debited balance again
RefundValue_Debited(p) == IF p = NullProfile THEN 0 ELSE p.credits - GENERATION_COST

\* the balance the refund writes: profile?.credits || 0
RefundValue(p) == IF p = NullProfile THEN 0 ELSE p.credits

\* faulty variant: a purchase adds twice the amount
PurchaseValue_Double(p) == (IF p = NullProfile THEN 0 ELSE p.credits) + 2 * PURCHASE_AMOUNT

\* the balance a purchase writes: (profile?.credits || 0) + 50
PurchaseValue(p) == (IF p = NullProfile THEN 0 ELSE p.credits) + PURCHASE_AMOUNT

\* the image data the endpoint returns for the upload f
ResultData(f) == f

\* generated.push(`data:image/png;base64,${base64Data}`)
DataUri(data) == <<"data:image/png;base64,", data>>

\* faulty variant: the empty-result check is missing
EmptyResult_Never(generated) == FALSE

\* if (generated.length === 0) throw ...
EmptyResult(generated) == Len(generated) = 0

\* the document addDoc writes; createdAt is the store's arrival count
GenerationRecord(u, images) ==
  [userId |-> u, images |-> images, createdAt |-> Len(generations) + 1]

\* updateDoc resolves only on a document that exists and a write the store takes
Accepted(u, ok) == ok /\ profiles[u] # Absent

\* the executions of handleGenerate that have begun and not yet returned
InFlight == {"debit", "encode", "call", "addDoc", "refund"}

\* faulty variant: the catch block reports the error and issues no refund write
Catch_NoRefund(g, cause) == [IdleGen EXCEPT !.outcome = "threw"]

\* the catch block: the refund write is issued and awaited
Catch(g, cause) == [g EXCEPT !.pc = "refund", !.refunds = @ + 1, !.cause = cause]

\* bookkeeping: another writer has written the profile record of u while the
\* execution g was between its debit and its return
OtherWrite(g, u) ==
  IF g.user = u /\ g.debited /\ g.pc \in InFlight THEN [g EXCEPT !.alone = FALSE] ELSE g

\* ----------------------------------------------------------------- session
\* onAuthStateChanged callback with currentUser = cu
OnAuthStateChanged(s, cu) ==
  /\ user' = [user EXCEPT ![s] = cu]
  /\ page' = [page EXCEPT ![s] = IF cu # NoUser THEN "dashboard" ELSE @]
  /\ isAuthLoading' = [isAuthLoading EXCEPT ![s] = FALSE]
  /\ auth' = [auth EXCEPT ![s].ready = TRUE]
  /\ UNCHANGED <<profile, uploadedFiles, isLoading, error, sub, creating,
                 profiles, generations, gen, buy,
                 generatedImages, subKey, gseen, text>>

\* faulty variant: the effect returns no cleanup, so with no user the listeners of
\* the previous run stay subscribed
ListenerEffect_Leak(s) ==
  /\ subKey[s] # user[s]
  /\ user[s] # NoUser
  /\ subKey' = [subKey EXCEPT ![s] = user[s]]
  /\ sub' = [sub EXCEPT ![s] = "fresh"]
  /\ gseen' = [gseen EXCEPT ![s] = -1]
  /\ UNCHANGED <<user, profile, uploadedFiles, isLoading, error, creating,
                 profiles, generations, gen, buy,
                 page, isAuthLoading, generatedImages, auth, text>>

\* useEffect(..., [user]): after a render in which user has changed, the cleanup
\* of the previous run unsubscribes both listeners and, with a user, the effect
\* subscribes both for that user
ListenerEffect(s) ==
  /\ subKey[s] # user[s]
  /\ subKey' = [subKey EXCEPT ![s] = user[s]]
  /\ sub' = [sub EXCEPT ![s] = IF user[s] = NoUser THEN "off" ELSE "fresh"]
  /\ gseen' = [gseen EXCEPT ![s] = -1]
  /\ UNCHANGED <<user, profile, uploadedFiles, isLoading, error, creating,
                 profiles, generations, gen, buy,
                 page, isAuthLoading, generatedImages, auth, text>>

\* the profile listener has something new to deliver
SnapshotDue(s) ==
  \/ sub[s] = "fresh"
  \/ sub[s] = "absent" /\ profiles[subKey[s]] # Absent
  \/ sub[s] = "seen" /\ profiles[subKey[s]] # profile[s]

\* onSnapshot(profileRef, ...): the current document of the identity the effect
\* ran for is delivered
ProfileSnapshot(s) ==
  /\ sub[s] # "off"
  /\ SnapshotDue(s)
  /\ LET d == profiles[subKey[s]] IN
       IF d # Absent
       THEN /\ profile' = [profile EXCEPT ![s] = d]
            /\ sub' = [sub EXCEPT ![s] = "seen"]
            /\ UNCHANGED creating
       ELSE /\ creating[s] = NoUser
            /\ creating' = [creating EXCEPT ![s] = subKey[s]]
            /\ sub' = [sub EXCEPT ![s] = "absent"]
            /\ UNCHANGED profile
  /\ UNCHANGED <<user, uploadedFiles, isLoading, error, profiles, generations, gen, buy>>
  /\ UNCHANGED uiVars

\* the setDoc of the profile listener settles; a rejection is only logged
CreateProfileSettles(s, ok) ==
  /\ creating[s] # NoUser
  /\ creating' = [creating EXCEPT ![s] = NoUser]
  /\ IF ok
     THEN /\ profiles' = [profiles EXCEPT ![creating[s]] = NewProfile(creating[s])]
          /\ gen' = [t \in Sessions |-> OtherWrite(gen[t], creating[s])]
     ELSE UNCHANGED <<profiles, gen>>
  /\ UNCHANGED <<user, profile, uploadedFiles, isLoading, error, sub, generations, buy>>
  /\ UNCHANGED uiVars

\* faulty variant: the length check lets a selection of six files through
HandleFileChange_OffByOne(s, n) ==
  /\ user[s] # NoUser
  /\ IF n > MAX_UPLOADS + 1
     THEN /\ error' = [error EXCEPT ![s] = TooManyError]
          /\ UNCHANGED uploadedFiles
     ELSE /\ uploadedFiles' = [uploadedFiles EXCEPT ![s] = FileList(n)]
          /\ error' = [error EXCEPT ![s] = NoError]
  /\ UNCHANGED <<user, profile, isLoading, sub, creating, profiles, generations, gen, buy>>
  /\ UNCHANGED uiVars

\* handleFileChange with a selection of n files
HandleFileChange(s, n) ==
  /\ user[s] # NoUser
  /\ IF n > MAX_UPLOADS
     THEN /\ error' = [error EXCEPT ![s] = TooManyError]
          /\ UNCHANGED uploadedFiles
     ELSE /\ uploadedFiles' = [uploadedFiles EXCEPT ![s] = FileList(n)]
          /\ error' = [error EXCEPT ![s] = NoError]
  /\ UNCHANGED <<user, profile, isLoading, sub, creating, profiles, generations, gen, buy>>
  /\ UNCHANGED uiVars

\* handleBuyCredits up to its await
HandleBuyCredits(s) ==
  /\ user[s] # NoUser
  /\ buy[s].pc = "idle"
  /\ PurchaseValue(profile[s]) <= MaxCredits
  /\ isLoading' = [isLoading EXCEPT ![s] = TRUE]
  /\ error' = [error EXCEPT ![s] = NoError]
  /\ buy' = [buy EXCEPT ![s] = [pc |-> "write", user |-> user[s], profile |-> profile[s]]]
  /\ UNCHANGED <<user, profile, uploadedFiles, sub, creating, profiles, generations, gen>>
  /\ UNCHANGED uiVars

\* faulty variant: the purchase is an increment of the stored balance
BuyCreditsSettles_Increment(s, ok) ==
  /\ buy[s].pc = "write"
  /\ LET u == buy[s].user IN
       IF Accepted(u, ok)
       THEN /\ profiles' = [profiles EXCEPT ![u].credits = @ + PURCHASE_AMOUNT]
            /\ gen' = [t \in Sessions |-> OtherWrite(gen[t], u)]
            /\ UNCHANGED error
       ELSE /\ error' = [error EXCEPT ![s] = BuyFailedError]
            /\ UNCHANGED <<profiles, gen>>
  /\ isLoading' = [isLoading EXCEPT ![s] = FALSE]
  /\ buy' = [buy EXCEPT ![s] = IdleBuy]
  /\ UNCHANGED <<user, profile, uploadedFiles, sub, creating, generations>>
  /\ UNCHANGED uiVars

\* the updateDoc of handleBuyCredits settles
BuyCreditsSettles(s, ok) ==
  /\ buy[s].pc = "write"
  /\ LET u == buy[s].user IN
       IF Accepted(u, ok)
       THEN /\ profiles' = [profiles EXCEPT ![u].credits = PurchaseValue(buy[s].profile)]
            /\ gen' = [t \in Sessions |-> OtherWrite(gen[t], u)]
            /\ UNCHANGED error
       ELSE /\ error' = [error EXCEPT ![s] = BuyFailedError]
            /\ UNCHANGED <<profiles, gen>>
  /\ isLoading' = [isLoading EXCEPT ![s] = FALSE]
  /\ buy' = [buy EXCEPT ![s] = IdleBuy]
  /\ UNCHANGED <<user, profile, uploadedFiles, sub, creating, generations>>
  /\ UNCHANGED uiVars


\* ---------------------------------------------------------- handleGenerate
\* the execution that starts in session s: the values its closure captured
StartGen(s) ==
  [IdleGen EXCEPT !.user = user[s], !.profile = profile[s], !.files = uploadedFiles[s]]


\* an execution that ran and returned: its locals are gone, how it ended is kept
Return(how) == [IdleGen EXCEPT !.outcome = how]

\* handleGenerate from its call to its first await (or its return)
HandleGenerate(s) ==
  /\ user[s] # NoUser
  /\ gen[s].pc = "idle"
  /\ Len(generations) < MaxRecords
  /\ IF NoImages(uploadedFiles[s])
     THEN /\ error' = [error EXCEPT ![s] = NoImagesError]
          /\ gen' = [gen EXCEPT ![s] = Return("no images")]
          /\ UNCHANGED isLoading
     ELSE IF InsufficientCredits(profile[s])
     THEN /\ error' = [error EXCEPT ![s] = InsufficientCreditsError]
          /\ gen' = [gen EXCEPT ![s] = Return("insufficient credits")]
          /\ UNCHANGED isLoading
     ELSE IF profile[s] = NullProfile
     THEN \* profile.credits throws a TypeError inside the try
          /\ isLoading' = [isLoading EXCEPT ![s] = TRUE]
          /\ error' = [error EXCEPT ![s] = GenerationFailedError(ErrorMessage("type"))]
          /\ gen' = [gen EXCEPT ![s] = Catch(StartGen(s), "type")]
     ELSE /\ isLoading' = [isLoading EXCEPT ![s] = TRUE]
          /\ error' = [error EXCEPT ![s] = NoError]
          /\ gen' = [gen EXCEPT ![s] = [StartGen(s) EXCEPT !.pc = "debit"]]
  \* setLinkedInBio('') once both checks are passed
  /\ text' = [text EXCEPT ![s].linkedInBio =
       IF NoImages(uploadedFiles[s]) \/ InsufficientCredits(profile[s]) THEN @ ELSE ""]
  /\ UNCHANGED <<user, profile, uploadedFiles, sub, creating, profiles, generations, buy>>
  /\ UNCHANGED <<page, isAuthLoading, generatedImages, subKey, gseen, auth>>

\* faulty variant: the debit write is not awaited, its failure goes unseen
AfterDebit_NotAwaited(g, accepted) == [g EXCEPT !.pc = "encode", !.debited = accepted]

\* where the execution goes when the debit write settles
AfterDebit(g, accepted) ==
  IF accepted THEN [g EXCEPT !.pc = "encode", !.debited = TRUE] ELSE Catch(g, "debit")

\* await updateDoc(profileRef, { credits: profile.credits - 50 }) settles
DebitSettles(s, ok) ==
  /\ gen[s].pc = "debit"
  /\ LET g == gen[s]
         acc == Accepted(g.user, ok)
     IN  /\ gen' = [t \in Sessions |->
                      IF t = s THEN AfterDebit(g, acc)
                      ELSE IF acc THEN OtherWrite(gen[t], g.user) ELSE gen[t]]
         /\ IF acc
            THEN /\ profiles' = [profiles EXCEPT ![g.user].credits = DebitValue(g.profile)]
                 /\ UNCHANGED error
            ELSE /\ error' = [error EXCEPT ![s] = GenerationFailedError(ErrorMessage("debit"))]
                 /\ UNCHANGED profiles
  /\ UNCHANGED <<user, profile, uploadedFiles, isLoading, sub, creating, generations, buy>>
  /\ UNCHANGED uiVars

\* faulty variant: the calls for all uploads are sent at once
EncodeSettles_AllAtOnce(s, ok) ==
  /\ gen[s].pc = "encode"
  /\ IF ok
     THEN /\ gen' = [gen EXCEPT ![s] =
                       [gen[s] EXCEPT !.pc = "call", !.i = 1, !.calls = Len(gen[s].files)]]
          /\ UNCHANGED error
     ELSE /\ gen' = [gen EXCEPT ![s] = Catch(gen[s], "encode")]
          /\ error' = [error EXCEPT ![s] = GenerationFailedError(ErrorMessage("encode"))]
  /\ UNCHANGED <<user, profile, uploadedFiles, isLoading, sub, creating,
                 profiles, generations, buy>>
  /\ UNCHANGED uiVars

\* await Promise.all(imagePromises) settles; on success the first fetch is sent
EncodeSettles(s, ok) ==
  /\ gen[s].pc = "encode"
  /\ IF ok
     THEN /\ gen' = [gen EXCEPT ![s] = [gen[s] EXCEPT !.pc = "call", !.i = 1, !.calls = 1]]
          /\ UNCHANGED error
     ELSE /\ gen' = [gen EXCEPT ![s] = Catch(gen[s], "encode")]
          /\ error' = [error EXCEPT ![s] = GenerationFailedError(ErrorMessage("encode"))]
  /\ UNCHANGED <<user, profile, uploadedFiles, isLoading, sub, creating,
                 profiles, generations, buy>>
  /\ UNCHANGED uiVars

\* faulty variant: the image is put in front of the batch (unshift for push)
Collect_Unshift(generated, f, o) ==
  IF o = "image" THEN <<DataUri(ResultData(f))>> \o generated ELSE generated

\* the result batch after the call for upload f came back with outcome o
Collect(generated, f, o) ==
  IF o = "image" THEN Append(generated, DataUri(ResultData(f))) ELSE generated

\* the execution after the call in flight returned a response (o is "image" or
\* "none"): the next fetch, the empty-result throw, or the addDoc
AfterResponse(g, o) ==
  LET got == Collect(g.generated, g.files[g.i], o)
      h == [g EXCEPT !.generated = got, !.yields = Append(@, o)]
  IN  IF g.i < Len(g.files) THEN [h EXCEPT !.i = @ + 1, !.calls = @ + 1]
      ELSE IF EmptyResult(got) THEN Catch(h, "empty")
      ELSE [h EXCEPT !.pc = "addDoc"]

\* await fetch(...) of the call in flight settles
InferenceReturns(s, o) ==
  /\ gen[s].pc = "call"
  /\ LET g == gen[s] IN
       IF o \in {"status", "transport"}
       THEN /\ gen' = [gen EXCEPT ![s] = Catch([g EXCEPT !.yields = Append(@, o)], o)]
            /\ error' = [error EXCEPT ![s] = GenerationFailedError(ErrorMessage(o))]
       ELSE /\ gen' = [gen EXCEPT ![s] = AfterResponse(g, o)]
            /\ error' = [error EXCEPT ![s] =
                 IF AfterResponse(g, o).pc = "refund"
                 THEN GenerationFailedError(ErrorMessage("empty")) ELSE @]
  /\ UNCHANGED <<user, profile, uploadedFiles, isLoading, sub, creating,
                 profiles, generations, buy>>
  /\ UNCHANGED uiVars

\* await addDoc(collection(db, 'generations'), ...) settles
AddDocSettles(s, ok) ==
  /\ gen[s].pc = "addDoc"
  /\ LET g == gen[s] IN
       IF ok
       THEN /\ generations' = Append(generations, GenerationRecord(g.user, g.generated))
            /\ uploadedFiles' = [uploadedFiles EXCEPT ![s] = <<>>]
            /\ isLoading' = [isLoading EXCEPT ![s] = FALSE]
            /\ gen' = [gen EXCEPT ![s] = Return("persisted")]
            /\ UNCHANGED error
       ELSE /\ gen' = [gen EXCEPT ![s] = Catch(g, "addDoc")]
            /\ error' = [error EXCEPT ![s] = GenerationFailedError(ErrorMessage("addDoc"))]
            /\ UNCHANGED <<generations, uploadedFiles, isLoading>>
  /\ UNCHANGED <<user, profile, sub, creating, profiles, buy>>
  /\ UNCHANGED uiVars

\* faulty variant: the refund path has no finally block
RefundSettles_NoFinally(s, ok) ==
  /\ gen[s].pc = "refund"
  /\ LET g == gen[s]
         acc == Accepted(g.user, ok)
     IN  /\ gen' = [t \in Sessions |->
                      IF t = s
                      THEN Return(IF acc THEN "refunded" ELSE "threw")
                      ELSE IF acc THEN OtherWrite(gen[t], g.user) ELSE gen[t]]
         /\ IF acc
            THEN profiles' = [profiles EXCEPT ![g.user].credits = RefundValue(g.profile)]
            ELSE UNCHANGED profiles
  /\ UNCHANGED <<user, profile, uploadedFiles, isLoading, error, sub, creating, generations, buy>>
  /\ UNCHANGED uiVars

\* faulty variant: the refund adds the cost to the balance the store holds
RefundSettles_Reread(s, ok) ==
  /\ gen[s].pc = "refund"
  /\ LET g == gen[s]
         acc == Accepted(g.user, ok)
     IN  /\ gen' = [t \in Sessions |->
                      IF t = s
                      THEN Return(IF acc THEN "refunded" ELSE "threw")
                      ELSE IF acc THEN OtherWrite(gen[t], g.user) ELSE gen[t]]
         /\ IF acc
            THEN profiles' = [profiles EXCEPT ![g.user].credits = @ + GENERATION_COST]
            ELSE UNCHANGED profiles
  /\ isLoading' = [isLoading EXCEPT ![s] = FALSE]
  /\ UNCHANGED <<user, profile, uploadedFiles, error, sub, creating, generations, buy>>
  /\ UNCHANGED uiVars

\* await updateDoc(profileRef, { credits: profile?.credits || 0 }) in the catch
\* block settles; the finally block runs either way
RefundSettles(s, ok) ==
  /\ gen[s].pc = "refund"
  /\ LET g == gen[s]
         acc == Accepted(g.user, ok)
     IN  /\ gen' = [t \in Sessions |->
                      IF t = s
                      THEN Return(IF acc THEN "refunded" ELSE "threw")
                      ELSE IF acc THEN OtherWrite(gen[t], g.user) ELSE gen[t]]
         /\ IF acc
            THEN profiles' = [profiles EXCEPT ![g.user].credits = RefundValue(g.profile)]
            ELSE UNCHANGED profiles
  /\ isLoading' = [isLoading EXCEPT ![s] = FALSE]
  /\ UNCHANGED <<user, profile, uploadedFiles, error, sub, creating, generations, buy>>
  /\ UNCHANGED uiVars

\* ---------------------------------------------------------- authentication
\* the cells and promises the authentication code leaves alone
nonAuthVars == <<profile, uploadedFiles, isLoading, sub, creating, profiles, generations,
                 gen, buy, generatedImages, subKey, gseen, text>>

\* faulty variant: the router shows the dashboard by the page cell
Shown_ByPage(s) ==
  IF isAuthLoading[s] THEN "authenticating"
  ELSE IF page[s] = "dashboard" THEN "dashboard"
  ELSE IF page[s] \in {"privacy", "terms"} THEN page[s]
  ELSE "landing"

\* Page Router: what the component renders
Shown(s) ==
  IF isAuthLoading[s] THEN "authenticating"
  ELSE IF user[s] # NoUser THEN "dashboard"
  ELSE IF page[s] \in {"privacy", "terms"} THEN page[s]
  ELSE "landing"

\* setPage from the footer of the landing page and from the legal pages
SetPage(s, p) ==
  /\ Shown(s) \in {"landing", "privacy", "terms"}
  /\ p # page[s]
  /\ page' = [page EXCEPT ![s] = p]
  /\ UNCHANGED <<user, isAuthLoading, error, auth, nonAuthVars>>

\* the first run of the onAuthStateChanged callback after mount: the provider
\* reports the persisted session, the session a redirect completed, or none
InitialAuthState(s) ==
  /\ ~auth[s].ready
  /\ \E cu \in LedgerUsers \cup {NoUser} : OnAuthStateChanged(s, cu)

\* the processRedirect timer fires: getRedirectResult(auth) is called
RedirectTimerFires(s) ==
  /\ auth[s].timer = "armed"
  /\ auth' = [auth EXCEPT ![s].timer = "pending"]
  /\ UNCHANGED <<user, page, isAuthLoading, error, nonAuthVars>>

\* the error cell after getRedirectResult settled with r
RedirectResultError(e, r) ==
  IF r \in AuthErrorCodes /\ r # "auth/redirect-cancelled-by-user"
  THEN RedirectFailedError(r) ELSE e

\* getRedirectResult(auth).then(...).catch(...) settles with r
RedirectResultSettles(s, r) ==
  /\ auth[s].timer = "pending"
  /\ auth' = [auth EXCEPT ![s].timer = "done"]
  /\ error' = [error EXCEPT ![s] = RedirectResultError(@, r)]
  /\ isAuthLoading' = [isAuthLoading EXCEPT ![s] = FALSE]
  /\ UNCHANGED <<user, page, nonAuthVars>>

\* handleSignIn, from a sign-in button of the landing page (disabled while
\* isAuthLoading); local: the hostname is localhost, the popup is used
HandleSignIn(s, local) ==
  /\ Shown(s) = "landing"
  /\ auth[s].popups + auth[s].redirects < MaxSignIns
  /\ isAuthLoading' = [isAuthLoading EXCEPT ![s] = TRUE]
  /\ auth' = [auth EXCEPT ![s] =
       IF local THEN [@ EXCEPT !.popups = @ + 1] ELSE [@ EXCEPT !.redirects = @ + 1]]
  /\ UNCHANGED <<user, page, error, nonAuthVars>>

\* the error cell after signInWithPopup settled with r
PopupError(e, r) == IF r \in AuthErrorCodes THEN PopupFailedError ELSE e

\* faulty variant: the popup chain has no finally block
PopupSettles_NoFinally(s, r) ==
  /\ auth[s].popups > 0
  /\ error' = [error EXCEPT ![s] = PopupError(@, r)]
  /\ auth' = [auth EXCEPT ![s].popups = @ - 1, ![s].ready = IF r = "credential" THEN TRUE ELSE @]
  /\ IF r = "credential"
     THEN \E u \in LedgerUsers :
            /\ user' = [user EXCEPT ![s] = u]
            /\ page' = [page EXCEPT ![s] = "dashboard"]
     ELSE UNCHANGED <<user, page>>
  /\ UNCHANGED <<isAuthLoading, nonAuthVars>>

\* signInWithPopup(auth, provider).then(...).catch(...).finally(...) settles
\* with r; with a credential the provider's current user has changed and the
\* auth-state callback runs with it in the same task
PopupSettles(s, r) ==
  /\ auth[s].popups > 0
  /\ error' = [error EXCEPT ![s] = PopupError(@, r)]
  /\ auth' = [auth EXCEPT ![s].popups = @ - 1, ![s].ready = IF r = "credential" THEN TRUE ELSE @]
  /\ IF r = "credential"
     THEN \E u \in LedgerUsers :
            /\ user' = [user EXCEPT ![s] = u]
            /\ page' = [page EXCEPT ![s] = "dashboard"]
     ELSE UNCHANGED <<user, page>>
  /\ isAuthLoading' = [isAuthLoading EXCEPT ![s] = FALSE]
  /\ UNCHANGED nonAuthVars

\* signInWithRedirect(auth, provider) ends with r: a rejection is reported; a
\* navigation unloads the page, and the component is mounted anew on return
RedirectStartSettles(s, r) ==
  /\ auth[s].redirects > 0
  /\ IF r = "navigated"
     THEN /\ user' = [user EXCEPT ![s] = NoUser]
          /\ profile' = [profile EXCEPT ![s] = NullProfile]
          /\ uploadedFiles' = [uploadedFiles EXCEPT ![s] = <<>>]
          /\ isLoading' = [isLoading EXCEPT ![s] = FALSE]
          /\ error' = [error EXCEPT ![s] = NoError]
          /\ sub' = [sub EXCEPT ![s] = "off"]
          /\ gen' = [gen EXCEPT ![s] = IdleGen]
          /\ buy' = [buy EXCEPT ![s] = IdleBuy]
          /\ page' = [page EXCEPT ![s] = "landing"]
          /\ isAuthLoading' = [isAuthLoading EXCEPT ![s] = TRUE]
          /\ generatedImages' = [generatedImages EXCEPT ![s] = <<>>]
          /\ subKey' = [subKey EXCEPT ![s] = NoUser]
          /\ gseen' = [gseen EXCEPT ![s] = -1]
          /\ auth' = [auth EXCEPT ![s] = IdleAuth]
          /\ text' = [text EXCEPT ![s] = IdleText]
          /\ UNCHANGED <<creating, profiles, generations>>
     ELSE /\ error' = [error EXCEPT ![s] = RedirectStartError]
          /\ isAuthLoading' = [isAuthLoading EXCEPT ![s] = FALSE]
          /\ auth' = [auth EXCEPT ![s].redirects = @ - 1]
          /\ UNCHANGED <<user, page, nonAuthVars>>

\* handleSignOut, from the button of the dashboard: signOut(auth) is called
HandleSignOut(s) ==
  /\ Shown(s) = "dashboard"
  /\ auth[s].signout = "none"
  /\ auth' = [auth EXCEPT ![s].signout = "pending"]
  /\ UNCHANGED <<user, page, isAuthLoading, error, nonAuthVars>>

\* signOut(auth).catch(...) settles; when the provider has signed the user out
\* the auth-state callback runs with null in the same task
SignOutSettles(s, ok) ==
  /\ auth[s].signout = "pending"
  /\ auth' = [auth EXCEPT ![s].signout = "none"]
  /\ IF ok
     THEN /\ user' = [user EXCEPT ![s] = NoUser]
          /\ isAuthLoading' = [isAuthLoading EXCEPT ![s] = FALSE]
          /\ UNCHANGED error
     ELSE /\ error' = [error EXCEPT ![s] = SignOutError("auth/network-request-failed")]
          /\ UNCHANGED <<user, isAuthLoading>>
  /\ UNCHANGED <<page, nonAuthVars>>

\* --------------------------------------------------------------- dashboard
\* faulty variant: the generate button is not disabled while isLoading
GenerateButton_NoLoading(s) ==
  /\ Shown(s) = "dashboard"
  /\ ~(InsufficientCredits(profile[s]) \/ NoImages(uploadedFiles[s]))

\* the generate button of the dashboard is rendered and not disabled:
\* disabled={isLoading || profile?.credits < 50 || uploadedFiles.length === 0}
GenerateButton(s) ==
  /\ Shown(s) = "dashboard"
  /\ ~(isLoading[s] \/ InsufficientCredits(profile[s]) \/ NoImages(uploadedFiles[s]))

\* the buy button of the dashboard is rendered and not disabled:
\* {profile?.credits < 50 && (<button ... disabled={isLoading}>)}
BuyButton(s) ==
  /\ Shown(s) = "dashboard"
  /\ InsufficientCredits(profile[s])
  /\ ~isLoading[s]

\* onClick of the generate button
ClickGenerate(s) == GenerateButton(s) /\ HandleGenerate(s)

\* onClick of the buy button
ClickBuy(s) == BuyButton(s) /\ HandleBuyCredits(s)

\* onChange of the file input of the dashboard
ChooseFiles(s, n) == Shown(s) = "dashboard" /\ HandleFileChange(s, n)

\* --------------------------------------------------------- text operations
\* the cells the text operations leave alone
nonTextVars == <<user, profile, uploadedFiles, isLoading, sub, creating, profiles,
                 generations, gen, buy, page, isAuthLoading, generatedImages, subKey,
                 gseen, auth>>

\* how generateTextWithGemini ends: a text that parses as the JSON asked for, a
\* text that does not (or no text at all), a non-success status, a rejected fetch
TextOutcomes == {"text", "unparsable", "status", "transport"}

\* the value of the prompt box
Prompts == {"", "studio light"}

\* what the endpoint suggests
Suggestions == <<[name |-> "The CEO", description |-> "dark, moody background"]>>

\* onChange of the prompt box
HandleCustomPrompt(s, v) ==
  /\ user[s] # NoUser
  /\ v # text[s].customPrompt
  /\ text' = [text EXCEPT ![s].customPrompt = v]
  /\ UNCHANGED <<error, nonTextVars>>

\* onClick of a suggestion: setCustomPrompt(s.description); setStyleSuggestions([])
PickSuggestion(s) ==
  /\ user[s] # NoUser
  /\ text[s].styleSuggestions # <<>>
  /\ text' = [text EXCEPT ![s].customPrompt = text[s].styleSuggestions[1].description,
                           ![s].styleSuggestions = <<>>]
  /\ UNCHANGED <<error, nonTextVars>>

\* handleSuggestStyles up to its await (the button is disabled while isTextLoading)
HandleSuggestStyles(s) ==
  /\ user[s] # NoUser
  /\ ~text[s].isTextLoading
  /\ text' = [text EXCEPT ![s].pc = "styles", ![s].isTextLoading = TRUE,
                           ![s].styleSuggestions = <<>>]
  /\ error' = [error EXCEPT ![s] = NoError]
  /\ UNCHANGED nonTextVars

\* faulty variant: drafting the bio costs a generation
HandleGenerateBio_Charged(s) ==
  /\ user[s] # NoUser
  /\ ~text[s].isTextLoading
  /\ text' = [text EXCEPT ![s].pc = "bio", ![s].isTextLoading = TRUE, ![s].linkedInBio = ""]
  /\ error' = [error EXCEPT ![s] = NoError]
  /\ profiles' = [profiles EXCEPT ![user[s]] =
       IF @ = Absent \/ InsufficientCredits(@) THEN @ ELSE [@ EXCEPT !.credits = DebitValue(profiles[user[s]])]]
  /\ UNCHANGED <<user, profile, uploadedFiles, isLoading, sub, creating,
                 generations, gen, buy, page, isAuthLoading, generatedImages, subKey,
                 gseen, auth>>

\* handleGenerateBio up to its await (the button is disabled while isTextLoading)
HandleGenerateBio(s) ==
  /\ user[s] # NoUser
  /\ ~text[s].isTextLoading
  /\ text' = [text EXCEPT ![s].pc = "bio", ![s].isTextLoading = TRUE, ![s].linkedInBio = ""]
  /\ error' = [error EXCEPT ![s] = NoError]
  /\ UNCHANGED nonTextVars

\* await generateTextWithGemini(...) settles with r, in either handler: the try
\* block goes on or the catch block reports; finally clears isTextLoading
TextReturns(s, r) ==
  /\ text[s].pc \in {"styles", "bio"}
  /\ IF text[s].pc = "styles"
     THEN IF r = "text"
          THEN /\ text' = [text EXCEPT ![s].pc = "idle", ![s].isTextLoading = FALSE,
                                       ![s].styleSuggestions = Suggestions]
               /\ UNCHANGED error
          ELSE /\ text' = [text EXCEPT ![s].pc = "idle", ![s].isTextLoading = FALSE]
               /\ error' = [error EXCEPT ![s] = StylesFailedError]
     ELSE IF r \in {"text", "unparsable"}
          THEN /\ text' = [text EXCEPT ![s].pc = "idle", ![s].isTextLoading = FALSE,
                                       ![s].linkedInBio = IF r = "text" THEN "bio" ELSE ""]
               /\ UNCHANGED error
          ELSE /\ text' = [text EXCEPT ![s].pc = "idle", ![s].isTextLoading = FALSE]
               /\ error' = [error EXCEPT ![s] = BioFailedError]
  /\ UNCHANGED nonTextVars

\* ----------------------------------------------------------------- gallery
\* query(collection(db, 'generations'), where('userId', '==', user.uid)): the
\* records of u
RecordsOf(u) == SelectSeq(generations, LAMBDA r : r.userId = u)

\* the orders in which a query without orderBy can deliver n documents: the
\* store orders them by document id, and addDoc draws the ids at random
DeliveryOrders(n) == {f \in [1..n -> 1..n] : \A i, j \in 1..n : f[i] = f[j] => i = j}

\* querySnapshot.forEach(doc => images.push(...doc.data().images))
RECURSIVE Flatten(_)
Flatten(docs) ==
  IF docs = <<>> THEN <<>>
  ELSE Flatten(SubSeq(docs, 1, Len(docs) - 1)) \o docs[Len(docs)].images

\* faulty variant: the images are not passed through a Set
Unique_Keep(images) == images

\* [...new Set(images)]: the first occurrence of each value, in order
RECURSIVE Unique(_)
Unique(images) ==
  IF images = <<>> THEN <<>>
  ELSE LET front == Unique(SubSeq(images, 1, Len(images) - 1))
           last == images[Len(images)]
       IN  IF \E k \in 1..Len(front) : front[k] = last THEN front ELSE Append(front, last)

\* uniqueImages.reverse()
Reverse(images) == [k \in 1..Len(images) |-> images[Len(images) + 1 - k]]

\* the gallery the generations listener derives from the documents delivered
Gallery(docs) == Reverse(Unique(Flatten(docs)))

\* onSnapshot(generationsQuery, ...): the records of the identity the effect ran
\* for are delivered in the store's order
GenerationsSnapshot(s, order) ==
  /\ subKey[s] # NoUser
  /\ LET recs == RecordsOf(subKey[s]) IN
       /\ gseen[s] # Len(recs)
       /\ order \in DeliveryOrders(Len(recs))
       /\ generatedImages' =
            [generatedImages EXCEPT ![s] = Gallery([k \in 1..Len(recs) |-> recs[order[k]]])]
       /\ gseen' = [gseen EXCEPT ![s] = Len(recs)]
  /\ UNCHANGED <<user, profile, uploadedFiles, isLoading, error, sub, creating,
                 profiles, generations, gen, buy,
                 page, isAuthLoading, subKey, auth, text>>

\* ------------------------------------------------------------ specification
\* sign-in of an identity in a session that has none
SignedIn(s) == \E u \in LedgerUsers : user[s] = NoUser /\ OnAuthStateChanged(s, u)

Next ==
  \E s \in LedgerSessions :
    \/ SignedIn(s)
    \/ ListenerEffect(s)
    \/ ProfileSnapshot(s)
    \/ \E ok \in BOOLEAN : CreateProfileSettles(s, ok)
    \/ \E n \in PickSizes : HandleFileChange(s, n)
    \/ HandleBuyCredits(s)
    \/ \E ok \in BOOLEAN : BuyCreditsSettles(s, ok)
    \/ HandleGenerate(s)
    \/ \E ok \in BOOLEAN : DebitSettles(s, ok)
    \/ \E ok \in BOOLEAN : EncodeSettles(s, ok)
    \/ \E o \in InferenceOutcomes : InferenceReturns(s, o)
    \/ \E ok \in BOOLEAN : AddDocSettles(s, ok)
    \/ \E ok \in BOOLEAN : RefundSettles(s, ok)

Spec == Init /\ [][Next]_vars


\* ------------------------------------------------------------------ claims
\* C1: whenever handleGenerate is called with a cached profile of fewer than 50
\* credits and a non-empty upload batch, it sets the insufficient-credits error
\* and returns with no side effect: the profile records and the generation
\* records are unchanged, no write is pending, no inference call was sent and
\* the loading flag is untouched.
C1_InsufficientCreditsRejected ==
  [][\A s \in Sessions :
       (/\ HandleGenerate(s)
        /\ profile[s] # NullProfile
        /\ profile[s].credits < 50
        /\ Len(uploadedFiles[s]) > 0)
       => /\ error'[s] = InsufficientCreditsError
          /\ profiles' = profiles
          /\ generations' = generations
          /\ gen'[s].pc = "idle"
          /\ gen'[s].calls = 0
          /\ gen'[s].refunds = 0
          /\ isLoading' = isLoading]_vars

\* C1 witness: a call was rejected for insufficient credits with files uploaded
C1_Witness ==
  \E s \in Sessions :
    /\ gen[s].outcome = "insufficient credits"
    /\ error[s] = InsufficientCreditsError
    /\ profile[s] # NullProfile
    /\ profile[s].credits < 50
    /\ Len(uploadedFiles[s]) > 0

\* C2: whenever handleGenerate is called with an empty upload batch, whatever
\* the cached profile, it sets the no-images error and returns: the stored
\* balance and the generation records are unchanged, no write is pending and no
\* inference call was sent.
C2_NoImagesRejected ==
  [][\A s \in Sessions :
       (HandleGenerate(s) /\ Len(uploadedFiles[s]) = 0)
       => /\ error'[s] = NoImagesError
          /\ profiles' = profiles
          /\ generations' = generations
          /\ gen'[s].pc = "idle"
          /\ gen'[s].calls = 0
          /\ gen'[s].refunds = 0
          /\ isLoading' = isLoading]_vars

\* C2 witness: a call with an empty batch was rejected although the cached
\* balance would have paid for a generation
C2_Witness ==
  \E s \in Sessions :
    /\ gen[s].outcome = "no images"
    /\ error[s] = NoImagesError
    /\ Len(uploadedFiles[s]) = 0
    /\ profile[s] # NullProfile
    /\ profile[s].credits >= 50


\* the images of the calls that yielded one, in upload order, among the first
\* k calls of the execution g
RECURSIVE YieldedImages(_, _)
YieldedImages(g, k) ==
  IF k = 0 THEN <<>>
  ELSE IF g.yields[k] = "image"
       THEN Append(YieldedImages(g, k - 1), <<"data:image/png;base64,", g.files[k]>>)
       ELSE YieldedImages(g, k - 1)

\* the debit of g succeeded and every one of its N calls yielded an image
AllYielded(g) ==
  /\ g.debited
  /\ g.calls = Len(g.files)
  /\ g.yields = [k \in 1..Len(g.files) |-> "image"]

\* what C3 says of the step that ends such an execution: one record with the N
\* images in upload order is appended, the batch is cleared, no refund write was
\* or is issued, and the balance stays where the debit put it: at the balance
\* the execution read (its pre-debit value) minus 50, unless another writer has
\* written the record since
C3_Effects(s) ==
  LET g == gen[s] IN
    /\ Len(generations') = Len(generations) + 1
    /\ SubSeq(generations', 1, Len(generations)) = generations
    /\ generations'[Len(generations')].userId = g.user
    /\ generations'[Len(generations')].images = YieldedImages(g, Len(g.files))
    /\ Len(generations'[Len(generations')].images) = Len(g.files)
    /\ uploadedFiles'[s] = <<>>
    /\ g.refunds = 0
    /\ gen'[s].pc = "idle"
    /\ gen'[s].refunds = 0
    /\ profiles' = profiles
    /\ g.alone => profiles[g.user].credits = g.profile.credits - 50

\* the debit write, when the store takes it, sets the balance to the balance
\* the execution read minus 50
DebitWrites(s) ==
  (\E ok \in BOOLEAN : DebitSettles(s, ok)) /\ gen'[s].debited
  => profiles'[gen[s].user].credits = gen[s].profile.credits - 50

\* C3 as stated: after a successful debit and N calls that each yielded an image
\* the execution ends with exactly one new record of the N images in upload
\* order, the batch cleared, no refund write and the balance at its pre-debit
\* value minus 50 -- however the write of the record settles.
C3_Original ==
  [][\A s \in Sessions :
       /\ DebitWrites(s)
       /\ (\E ok \in BOOLEAN : AddDocSettles(s, ok)) /\ AllYielded(gen[s])
          => C3_Effects(s)]_vars

\* C3 as amended: the same, for the executions whose record write the store
\* takes.
C3_AllYieldPersistsOneRecord ==
  [][\A s \in Sessions :
       /\ DebitWrites(s)
       /\ AddDocSettles(s, TRUE) /\ AllYielded(gen[s]) => C3_Effects(s)]_vars

\* C3 witness: two uploads, both calls yielded, one record of both images in
\* upload order, batch cleared, balance 50 - 50 = 0
C3_Witness ==
  \E s \in Sessions :
    /\ gen[s].outcome = "persisted"
    /\ uploadedFiles[s] = <<>>
    /\ Len(generations) = 1
    /\ generations[1].images = <<DataUri(ResultData(1)), DataUri(ResultData(2))>>
    /\ profile[s] # NullProfile
    /\ profile[s].credits = 50
    /\ profiles[user[s]].credits = 0

\* the user-visible messages of a failed inference call: the underlying error
\* text between the failure prefix and the refund notice
CallFailureMessages ==
  {<<"Generation failed: ", m, ". Refunding credits.">> : m \in {"API Error", "Failed to fetch"}}

\* what C4 says of the step at which a call fails: no record, the combined
\* message, and the refund write issued
C4_AtFailure(s) ==
  (\E o \in {"status", "transport"} : InferenceReturns(s, o))
  => /\ gen'[s].pc = "refund"
     /\ gen'[s].refunds = 1
     /\ generations' = generations
     /\ profiles' = profiles
     /\ error'[s] \in CallFailureMessages

\* what C4 says of the end of such an execution: still no record, and the
\* stored balance back at the value the execution read before its debit
C4_AtReturn(s) ==
  /\ generations' = generations
  /\ gen'[s].pc = "idle"
  /\ profiles'[gen[s].user].credits = gen[s].profile.credits

C5_AtEmpty(s) ==
  (/\ InferenceReturns(s, "none")
   /\ gen[s].i = Len(gen[s].files)
   /\ gen[s].generated = <<>>)
  => /\ gen'[s].pc = "refund"
     /\ gen'[s].cause = "empty"
     /\ gen'[s].refunds = 1
     /\ generations' = generations
     /\ uploadedFiles' = uploadedFiles
     /\ error'[s] = <<"Generation failed: ", EmptyResultMessage, ". Refunding credits.">>

\* what C5 says of the end of such an execution
C5_AtReturn(s) ==
  /\ generations' = generations
  /\ uploadedFiles' = uploadedFiles
  /\ profiles'[gen[s].user].credits = gen[s].profile.credits

FailsAfterDebit(s) ==
  \/ EncodeSettles(s, FALSE)
  \/ \E o \in {"status", "transport"} : InferenceReturns(s, o)
  \/ /\ InferenceReturns(s, "none")
     /\ gen[s].i = Len(gen[s].files)
     /\ gen[s].generated = <<>>
  \/ AddDocSettles(s, FALSE)

\* C6: an execution that has debited and then fails at a later step issues its
\* one refund write at that step; an execution that has debited returns either
\* out of the awaited refund write, having issued exactly one, or out of the
\* accepted record write, having issued none; no execution issues a second one.
C6_RefundOnEveryFailure ==
  [][\A s \in Sessions :
       /\ FailsAfterDebit(s)
          => gen[s].refunds = 0 /\ gen'[s].pc = "refund" /\ gen'[s].refunds = 1
       /\ (gen[s].debited /\ gen[s].pc \in InFlight /\ gen'[s].pc = "idle")
          => \/ gen[s].pc = "refund" /\ gen[s].refunds = 1
             \/ /\ gen[s].pc = "addDoc"
                /\ gen[s].refunds = 0
                /\ Len(generations') = Len(generations) + 1
       /\ (gen[s].debited /\ gen'[s].pc \in {"encode", "call", "addDoc"})
          => gen'[s].refunds = 0
       /\ gen'[s].refunds <= 1]_vars

\* C6 witness: the write of the record failed after a debit and the refund
\* write is in flight
C6_Witness ==
  \E s \in Sessions :
    /\ gen[s].pc = "refund"
    /\ gen[s].debited
    /\ gen[s].cause = "addDoc"
    /\ gen[s].refunds = 1

\* C7: an execution that has sent an inference call, or is about to, has had
\* its debit write accepted by the store before.
C7_DebitBeforeInference ==
  \A s \in Sessions :
    (gen[s].calls > 0 \/ gen[s].pc \in {"encode", "call", "addDoc"}) => gen[s].debited

\* C7 witness: the second inference call is in flight after an accepted debit
C7_Witness ==
  \E s \in Sessions :
    /\ gen[s].pc = "call"
    /\ gen[s].calls = 2
    /\ gen[s].debited
    /\ profiles[gen[s].user].credits = gen[s].profile.credits - 50

\* C8: no stored balance is negative, and no write in flight to a profile
\* record (creation, purchase, debit, refund) carries a negative balance.
C8_BalanceNeverNegative ==
  /\ \A u \in Users : profiles[u] # Absent => profiles[u].credits >= 0
  /\ \A s \in Sessions :
       /\ gen[s].pc = "debit" => DebitValue(gen[s].profile) >= 0
       /\ gen[s].pc = "refund" => RefundValue(gen[s].profile) >= 0
       /\ buy[s].pc = "write" => PurchaseValue(buy[s].profile) >= 0
       /\ creating[s] # NoUser => NewProfile(creating[s]).credits >= 0

\* C8 witness: a debit has taken a balance of exactly 50 down to 0 while a
\* purchase of the same session is in flight
C8_Witness ==
  \E s \in Sessions :
    /\ gen[s].debited
    /\ gen[s].profile.credits = 50
    /\ profiles[gen[s].user].credits = 0
    /\ buy[s].pc = "write"

NextProfile ==
  \E s \in LedgerSessions :
    \/ SignedIn(s)
    \/ ListenerEffect(s)
    \/ ProfileSnapshot(s)
    \/ \E ok \in BOOLEAN : CreateProfileSettles(s, ok)
    \/ \E n \in {0, 1} : HandleFileChange(s, n)
    \/ HandleBuyCredits(s)
    \/ \E ok \in BOOLEAN : BuyCreditsSettles(s, ok)
    \/ HandleGenerate(s)
    \/ \E ok \in BOOLEAN : DebitSettles(s, ok)
    \/ \E ok \in BOOLEAN : EncodeSettles(s, ok)
    \/ \E o \in InferenceOutcomes : InferenceReturns(s, o)
    \/ \E ok \in BOOLEAN : AddDocSettles(s, ok)
    \/ \E ok \in BOOLEAN : RefundSettles(s, ok)

\* the ledger with single-file selections and the scheduling the browser
\* gives: a listener callback that is due is eventually run, and the write the
\* listener issued eventually settles
SpecProfile ==
  /\ Init
  /\ [][NextProfile]_vars
  /\ \A s \in LedgerSessions :
       /\ WF_vars(ListenerEffect(s))
       /\ WF_vars(ProfileSnapshot(s))
       /\ WF_vars(\E ok \in BOOLEAN : CreateProfileSettles(s, ok))

\* C10 as stated: the listener that observes the profile record absent creates
\* it; so once the create it issued has settled, the record exists.
C10_Original ==
  \A s \in Sessions :
    (sub[s] = "absent" /\ creating[s] = NoUser) => profiles[user[s]] # Absent

\* C10 as amended: the listener that observes the record absent issues a create
\* for its user and leaves the cached profile alone; when the store takes the
\* create, the record is that identity's id and email with credits 0; a
\* snapshot of an existing record makes it the cached profile; and once the
\* record exists the listener that saw it absent eventually holds it.
C10_LazyProfileCreation ==
  /\ [][\A s \in Sessions :
          /\ (ProfileSnapshot(s) /\ profiles[user[s]] = Absent)
             => creating'[s] = user[s] /\ profile' = profile /\ profiles' = profiles
          /\ CreateProfileSettles(s, TRUE)
             => profiles'[creating[s]]
                  = [userId |-> creating[s], email |-> Email(creating[s]), credits |-> 0]
          /\ (ProfileSnapshot(s) /\ profiles[user[s]] # Absent)
             => profile'[s] = profiles[user[s]]]_vars
  /\ \A s \in Sessions :
       (sub[s] = "absent" /\ profiles[user[s]] # Absent)
       ~> (sub[s] = "seen" /\ profile[s] # NullProfile /\ profile[s].userId = user[s])

\* C10 witness: the listener saw the record absent, its create was taken, and
\* the record with credits 0 is in the store, about to be delivered
C10_Witness ==
  \E s \in Sessions :
    /\ sub[s] = "absent"
    /\ creating[s] = NoUser
    /\ profile[s] = NullProfile
    /\ profiles[user[s]] = [userId |-> user[s], email |-> Email(user[s]), credits |-> 0]


\* --------------------------------------------------- two observers, one identity
\* the steps of two sessions (two tabs) of the same identity that subscribe to
\* the profile record, create it when they see it absent, and buy credits
NextRace ==
  \E s \in Sessions :
    \/ SignedIn(s)
    \/ ListenerEffect(s)
    \/ ProfileSnapshot(s)
    \/ \E ok \in BOOLEAN : CreateProfileSettles(s, ok)
    \/ HandleBuyCredits(s)
    \/ \E ok \in BOOLEAN : BuyCreditsSettles(s, ok)

SpecRace == Init /\ [][NextRace]_vars

\* C11: a create that the store takes when the profile record already exists
\* leaves the record as it is -- so two creates leave what one leaves, and a
\* create that arrives after a purchase does not alter the balance.
C11_CreateIsIdempotent ==
  [][\A s \in Sessions :
       (CreateProfileSettles(s, TRUE) /\ profiles[creating[s]] # Absent)
       => profiles'[creating[s]] = profiles[creating[s]]]_vars


\* ------------------------------------------------------------ the gallery
\* the largest number of records the store holds when a gallery is derived
GalleryRecords == MaxRecords + 1

\* the result batch of an execution whose calls for the uploads in S yielded an
\* image and whose other calls did not, over n uploads
RECURSIVE BatchOf(_, _)
BatchOf(S, n) ==
  IF n = 0 THEN <<>>
  ELSE Collect(BatchOf(S, n - 1), n, IF n \in S THEN "image" ELSE "none")

\* the image batches a record can hold: the non-empty ones
ImageBatches == {BatchOf(S, MaxPick) : S \in (SUBSET (1..MaxPick)) \ {{}}}

\* the contents the collection 'generations' can have after n executions of any
\* users have written their record
StoredRecords(n) ==
  {[k \in 1..n |-> [userId |-> us[k], images |-> bs[k], createdAt |-> k]] :
     us \in [1..n -> Users], bs \in [1..n -> ImageBatches]}

\* a mounted session and a store that holds records of earlier executions; the
\* profile record of the first identity pays for one more
InitGallery ==
  /\ user = [s \in Sessions |-> NoUser]
  /\ profile = [s \in Sessions |-> NullProfile]
  /\ uploadedFiles = [s \in Sessions |-> <<>>]
  /\ isLoading = [s \in Sessions |-> FALSE]
  /\ error = [s \in Sessions |-> NoError]
  /\ sub = [s \in Sessions |-> "off"]
  /\ creating = [s \in Sessions |-> NoUser]
  /\ profiles = [u \in Users |->
                   IF u \in LedgerUsers THEN ProfileDoc(u, GENERATION_COST) ELSE Absent]
  /\ \E n \in 0..GalleryRecords : generations \in StoredRecords(n)
  /\ gen = [s \in Sessions |-> IdleGen]
  /\ buy = [s \in Sessions |-> IdleBuy]
  /\ page = [s \in Sessions |-> "landing"]
  /\ isAuthLoading = [s \in Sessions |-> TRUE]
  /\ generatedImages = [s \in Sessions |-> <<>>]
  /\ subKey = [s \in Sessions |-> NoUser]
  /\ gseen = [s \in Sessions |-> -1]
  /\ auth = [s \in Sessions |-> IdleAuth]
  /\ text = [s \in Sessions |-> IdleText]

\* a delivery of the generations listener, in any order the store may use
GenerationsDelivered(s) ==
  \E n \in 0..GalleryRecords : \E order \in DeliveryOrders(n) : GenerationsSnapshot(s, order)

\* the steps of a session that signs in, subscribes, receives the records and
\* generates from a single upload
NextGallery ==
  \E s \in LedgerSessions :
    \/ SignedIn(s)
    \/ ListenerEffect(s)
    \/ ProfileSnapshot(s)
    \/ GenerationsDelivered(s)
    \/ HandleFileChange(s, 1)
    \/ HandleGenerate(s)
    \/ \E ok \in BOOLEAN : DebitSettles(s, ok)
    \/ \E ok \in BOOLEAN : EncodeSettles(s, ok)
    \/ \E o \in InferenceOutcomes : InferenceReturns(s, o)
    \/ \E ok \in BOOLEAN : AddDocSettles(s, ok)
    \/ \E ok \in BOOLEAN : RefundSettles(s, ok)

SpecGallery == InitGallery /\ [][NextGallery]_vars

\* the GenerationRecords of the user of session s
UserRecords(s) ==
  {generations[k] : k \in {j \in 1..Len(generations) : generations[j].userId = user[s]}}

\* the image references that occur in the record r
ImagesIn(r) == {r.images[k] : k \in 1..Len(r.images)}

\* C13: after every generations snapshot the gallery holds no reference twice,
\* and the references it holds are exactly those that occur in some
\* GenerationRecord of the user.
C13_GalleryIsDedupedUnion ==
  [][\A s \in Sessions :
       GenerationsDelivered(s)
       => LET g == generatedImages'[s] IN
            /\ \A i, j \in 1..Len(g) : g[i] = g[j] => i = j
            /\ {g[k] : k \in 1..Len(g)} = UNION {ImagesIn(r) : r \in UserRecords(s)}]_vars

\* C13 witness: two records of the user hold the same two references, a record
\* of another user is in the store, and the gallery holds each of the two
\* references once
C13_Witness ==
  \E s \in Sessions :
    /\ user[s] # NoUser
    /\ gseen[s] = 2
    /\ Len(generations) = 2
    /\ \A k \in 1..2 :
         /\ generations[k].userId = user[s]
         /\ generations[k].images = <<DataUri(ResultData(1)), DataUri(ResultData(2))>>
    /\ generatedImages[s] = <<DataUri(ResultData(2)), DataUri(ResultData(1))>>

\* the position of the reference a in the gallery g (0 when it is not there)
PositionIn(g, a) == IF \E k \in 1..Len(g) : g[k] = a
                    THEN CHOOSE k \in 1..Len(g) : g[k] = a ELSE 0

\* C14: after every generations snapshot, of two images that come from
\* different records of the user and occur in no other record, the one of the
\* record created later stands before the one of the older record.
C14_NewestRecordFirst ==
  [][\A s \in Sessions :
       GenerationsDelivered(s)
       => \A ra, rb \in UserRecords(s) : \A a \in ImagesIn(ra), b \in ImagesIn(rb) :
            (/\ ra.createdAt > rb.createdAt
             /\ \A r \in UserRecords(s) : (a \in ImagesIn(r) => r = ra) /\ (b \in ImagesIn(r) => r = rb))
            => PositionIn(generatedImages'[s], a) < PositionIn(generatedImages'[s], b)]_vars


\* ------------------------------------------------------- identity changes
\* the provider reports another identity, or none: a sign-in, a sign-out
AuthChanges(s) == \E cu \in Users \cup {NoUser} : cu # user[s] /\ OnAuthStateChanged(s, cu)

\* a store with one record of each identity and the profile record of the first
InitIdentity ==
  /\ InitGallery
  /\ generations =
       <<[userId |-> "u1", images |-> <<DataUri(ResultData(1))>>, createdAt |-> 1],
         [userId |-> "u2", images |-> <<DataUri(ResultData(2))>>, createdAt |-> 2]>>

\* the steps of a session whose identity changes while its listeners run
NextIdentity ==
  \E s \in LedgerSessions :
    \/ AuthChanges(s)
    \/ ListenerEffect(s)
    \/ ProfileSnapshot(s)
    \/ \E ok \in BOOLEAN : CreateProfileSettles(s, ok)
    \/ GenerationsDelivered(s)

\* React runs the effect after every render in which user has changed
SpecIdentity ==
  /\ InitIdentity
  /\ [][NextIdentity]_vars
  /\ \A s \in LedgerSessions : WF_vars(ListenerEffect(s))

\* a callback of one of the two listeners of session s runs
ListenerCallback(s) == ProfileSnapshot(s) \/ GenerationsDelivered(s)

\* C12 as stated: once the identity has changed or become absent, no callback of
\* a listener registered for the previous identity updates the cached profile
\* or the gallery: a callback that updates either runs for the current identity.
C12_Original ==
  [][\A s \in Sessions :
       (/\ ListenerCallback(s)
        /\ profile'[s] # profile[s] \/ generatedImages'[s] # generatedImages[s])
       => subKey[s] = user[s]]_vars

\* C12 as amended: one pair of listeners per session, keyed by the identity the
\* listener effect last ran for; a callback delivers the profile record and the
\* records of that identity only; the effect, when it runs after a change of
\* identity, unsubscribes that pair and subscribes a pair for the current
\* identity, or none when there is none; the effect eventually runs; and from
\* then on the callbacks that run are those of the current identity.
C12_SubscriptionsFollowIdentity ==
  /\ [][\A s \in Sessions :
          /\ ListenerEffect(s)
             => /\ subKey'[s] = user[s]
                /\ sub'[s] = IF user[s] = NoUser THEN "off" ELSE "fresh"
                /\ gseen'[s] = -1
          /\ (subKey[s] = NoUser) = (sub[s] = "off")
          /\ ListenerCallback(s) => subKey[s] # NoUser
          /\ (ProfileSnapshot(s) /\ profile'[s] # profile[s])
             => profile'[s] = profiles[subKey[s]]
          /\ GenerationsDelivered(s)
             => \A k \in 1..Len(generatedImages'[s]) :
                  \E r \in {generations[j] : j \in 1..Len(generations)} :
                    r.userId = subKey[s] /\ generatedImages'[s][k] \in ImagesIn(r)
          /\ (subKey'[s] # subKey[s]) => ListenerEffect(s)]_vars
  /\ \A s \in Sessions : (subKey[s] # user[s]) ~> (subKey[s] = user[s])

\* C12 witness: the session was the first identity's, holds its profile and its
\* gallery, and after the change of identity the effect has run for the second
C12_Witness ==
  \E s \in Sessions :
    /\ user[s] = "u2"
    /\ subKey[s] = "u2"
    /\ sub[s] = "fresh"
    /\ profile[s] # NullProfile
    /\ profile[s].userId = "u1"
    /\ generatedImages[s] = <<DataUri(ResultData(1))>>


\* --------------------------------------------------------- authentication
\* the steps of a session from mount through sign-in and sign-out
NextAuth ==
  \E s \in LedgerSessions :
    \/ InitialAuthState(s)
    \/ RedirectTimerFires(s)
    \/ \E r \in RedirectResults : RedirectResultSettles(s, r)
    \/ \E local \in BOOLEAN : HandleSignIn(s, local)
    \/ \E r \in PopupResults : PopupSettles(s, r)
    \/ \E r \in RedirectStarts : RedirectStartSettles(s, r)
    \/ HandleSignOut(s)
    \/ \E ok \in BOOLEAN : SignOutSettles(s, ok)
    \/ \E p \in {"landing", "privacy", "terms"} : SetPage(s, p)
    \/ ListenerEffect(s)

\* the provider reports its state after mount, the timer fires, and every
\* promise of the provider that is outstanding settles
SpecAuth ==
  /\ Init
  /\ [][NextAuth]_vars
  /\ \A s \in LedgerSessions :
       /\ WF_vars(InitialAuthState(s))
       /\ WF_vars(RedirectTimerFires(s))
       /\ WF_vars(\E r \in RedirectResults : RedirectResultSettles(s, r))
       /\ WF_vars(\E r \in PopupResults : PopupSettles(s, r))
       /\ WF_vars(\E r \in RedirectStarts : RedirectStartSettles(s, r))

\* a step at which session s observes an outcome of the provider: the auth-state
\* callback, the redirect result, the popup's result, the failure to start the
\* redirect
OutcomeObserved(s) ==
  \/ InitialAuthState(s)
  \/ SignOutSettles(s, TRUE)
  \/ \E r \in RedirectResults : RedirectResultSettles(s, r)
  \/ \E r \in PopupResults : PopupSettles(s, r)
  \/ \E r \in RedirectStarts \ {"navigated"} : RedirectStartSettles(s, r)

\* C15: every step at which an outcome of the provider is observed leaves
\* isAuthLoading false and the session with a user or without one; and a
\* session that is loading, after mount or after handleSignIn, eventually is
\* not.
C15_AuthLoadingResolves ==
  /\ [][\A s \in Sessions :
          OutcomeObserved(s)
          => /\ isAuthLoading'[s] = FALSE
             /\ Shown(s)' \in {"dashboard", "landing", "privacy", "terms"}
             /\ (Shown(s)' = "dashboard") = (user'[s] \in Users)]_vars
  /\ \A s \in LedgerSessions : isAuthLoading[s] ~> ~isAuthLoading[s]

\* C15 witness: a sign-in by popup was started and failed; the loading state
\* has ended and the session is unauthenticated with the error shown
C15_Witness ==
  \E s \in Sessions :
    /\ ~isAuthLoading[s]
    /\ user[s] = NoUser
    /\ error[s] = PopupFailedError
    /\ auth[s].popups = 0
    /\ auth[s].redirects = 0

\* C16: while a sign-in promise of a session is outstanding isAuthLoading is
\* true, so handleSignIn cannot be called again.
C16_LoadingWhileSigningIn ==
  \A s \in Sessions : auth[s].popups + auth[s].redirects > 0 => isAuthLoading[s]

\* C17: a sign-out that fails puts the provider's message in the error cell and
\* leaves the session as it was, still on the dashboard; a sign-out that
\* succeeds leaves the session without a user and not on the dashboard; in
\* both cases the promise is consumed and nothing is left outstanding.
C17_SignOutNeverThrows ==
  [][\A s \in Sessions :
       /\ SignOutSettles(s, FALSE)
          => /\ error'[s] = <<"auth/network-request-failed">>
             /\ user'[s] = user[s]
             /\ Shown(s)' = Shown(s)
             /\ auth'[s].signout = "none"
       /\ SignOutSettles(s, TRUE)
          => /\ user[s] \in Users
             /\ user'[s] = NoUser
             /\ Shown(s)' \in {"landing", "privacy", "terms"}
             /\ error'[s] = error[s]
             /\ auth'[s].signout = "none"
       /\ HandleSignOut(s) => error'[s] = error[s] /\ user'[s] = user[s]]_vars

\* C17 witness: a sign-out failed and was reported, a second one succeeded: no
\* user, the landing page shown although the page cell still says dashboard
C17_Witness ==
  \E s \in Sessions :
    /\ user[s] = NoUser
    /\ page[s] = "dashboard"
    /\ Shown(s) = "landing"
    /\ error[s] = <<"auth/network-request-failed">>
    /\ auth[s].signout = "none"

\* the rejections with which the provider reports that the user gave up
Cancellations == {"auth/redirect-cancelled-by-user", "auth/popup-closed-by-user"}

\* C18: on each sign-in path a rejection that is not a cancellation sets that
\* path's error message, and a cancellation leaves the error message as it was.
C18_AuthErrorsShownUnlessCancelled ==
  [][\A s \in Sessions :
       /\ \A r \in RedirectResults \cap AuthErrorCodes :
            RedirectResultSettles(s, r)
            => error'[s] = IF r \in Cancellations THEN error[s]
                           ELSE <<"Failed to complete sign-in: ", r, ". Please try again.">>
       /\ \A r \in PopupResults \cap AuthErrorCodes :
            PopupSettles(s, r)
            => error'[s] = IF r \in Cancellations THEN error[s] ELSE PopupFailedError
       /\ \A r \in RedirectStarts \cap AuthErrorCodes :
            RedirectStartSettles(s, r)
            => error'[s] = IF r \in Cancellations THEN error[s] ELSE RedirectStartError]_vars


\* ------------------------------------------------------- errors that escape
\* C19: no execution of handleGenerate ends with an error thrown out of the
\* handler: its promise never rejects.
C19_NoErrorEscapes == \A s \in Sessions : gen[s].outcome # "threw"

\* -------------------------------------------------------- text operations
\* the steps of a session that subscribes, generates from a single upload and
\* uses the text operations
NextText ==
  \E s \in LedgerSessions :
    \/ SignedIn(s)
    \/ ListenerEffect(s)
    \/ ProfileSnapshot(s)
    \/ \E ok \in BOOLEAN : CreateProfileSettles(s, ok)
    \/ HandleFileChange(s, 1)
    \/ HandleGenerate(s)
    \/ \E ok \in BOOLEAN : DebitSettles(s, ok)
    \/ \E ok \in BOOLEAN : EncodeSettles(s, ok)
    \/ \E o \in InferenceOutcomes : InferenceReturns(s, o)
    \/ \E ok \in BOOLEAN : AddDocSettles(s, ok)
    \/ \E ok \in BOOLEAN : RefundSettles(s, ok)
    \/ \E v \in Prompts : HandleCustomPrompt(s, v)
    \/ PickSuggestion(s)
    \/ HandleSuggestStyles(s)
    \/ HandleGenerateBio(s)
    \/ \E r \in TextOutcomes : TextReturns(s, r)

SpecText == Init /\ [][NextText]_vars

\* a step of one of the two text operations of session s
TextOperationStep(s) ==
  \/ HandleSuggestStyles(s)
  \/ HandleGenerateBio(s)
  \/ \E r \in TextOutcomes : TextReturns(s, r)

\* C20: no step of handleSuggestStyles or handleGenerateBio, whether it ends in
\* success or in failure, changes a stored profile, the cached profile, the
\* generation records or the upload batch, or issues a write to the store.
C20_TextOperationsAreFree ==
  [][\A s \in Sessions :
       TextOperationStep(s)
       => /\ profiles' = profiles
          /\ profile' = profile
          /\ generations' = generations
          /\ uploadedFiles' = uploadedFiles
          /\ creating' = creating
          /\ gen' = gen
          /\ buy' = buy]_vars

\* C20 witness: with a balance of 0, an upload selected and a generation
\* refused for lack of credits, the suggestions came back and the bio was
\* drafted, and the balance is still 0
C20_Witness ==
  \E s \in Sessions :
    /\ user[s] # NoUser
    /\ profiles[user[s]] # Absent
    /\ profiles[user[s]].credits = 0
    /\ profile[s] = profiles[user[s]]
    /\ Len(uploadedFiles[s]) = 1
    /\ gen[s].outcome = "insufficient credits"
    /\ text[s].styleSuggestions # <<>>
    /\ text[s].linkedInBio = "bio"
    /\ text[s].pc = "idle"


\* ------------------------------------------------ two tabs, one identity
\* the profile record of the first identity exists, with any balance
InitTabs ==
  /\ Init
  /\ profiles["u1"] # Absent

\* the steps of two sessions (two tabs) of the same identity, each driven from
\* its dashboard: single uploads, purchases and generations
NextTabs ==
  \E s \in Sessions :
    \/ SignedIn(s)
    \/ ListenerEffect(s)
    \/ ProfileSnapshot(s)
    \/ ChooseFiles(s, 1)
    \/ ClickBuy(s)
    \/ \E ok \in BOOLEAN : BuyCreditsSettles(s, ok)
    \/ ClickGenerate(s)
    \/ \E ok \in BOOLEAN : DebitSettles(s, ok)
    \/ \E ok \in BOOLEAN : EncodeSettles(s, ok)
    \/ \E o \in InferenceOutcomes : InferenceReturns(s, o)
    \/ \E ok \in BOOLEAN : AddDocSettles(s, ok)
    \/ \E ok \in BOOLEAN : RefundSettles(s, ok)

SpecTabs == InitTabs /\ [][NextTabs]_vars


\* C21: a purchase write that the store takes sets the balance to the balance
\* its session had cached plus 50, and a debit write to the balance its session
\* had cached minus 50, whatever the stored balance is at that moment; so of a
\* purchase and a debit in flight on the same record the one taken last decides
\* the balance, and there is a reachable state (the witness) in which that
\* balance is not the stored balance plus 50 minus 50.
C21_LastWriterWins ==
  [][\A s \in Sessions :
       /\ (BuyCreditsSettles(s, TRUE) /\ profiles[buy[s].user] # Absent)
          => profiles'[buy[s].user].credits
               = (IF buy[s].profile = NullProfile THEN 0 ELSE buy[s].profile.credits) + 50
       /\ (DebitSettles(s, TRUE) /\ profiles[gen[s].user] # Absent)
          => profiles'[gen[s].user].credits = gen[s].profile.credits - 50]_vars

\* C21 witness: a purchase of one tab and a debit of another tab are in flight
\* on the same profile record of balance 50, the purchase computed from a cached
\* balance of 0 and the debit from a cached balance of 50; the debit carries a
\* balance other than 50 + 50 - 50 and, taken last, leaves the purchase lost
C21_Witness ==
  \E s, t \in Sessions :
    /\ s # t
    /\ buy[s].pc = "write"
    /\ gen[t].pc = "debit"
    /\ buy[s].user = gen[t].user
    /\ profiles[gen[t].user] # Absent
    /\ profiles[gen[t].user].credits = 50
    /\ buy[s].profile # NullProfile
    /\ buy[s].profile.credits = 0
    /\ gen[t].profile.credits = 50
    /\ DebitValue(gen[t].profile) # profiles[gen[t].user].credits + 50 - 50


\* ------------------------------------------------------- the upload limit
\* the sizes of the selections at the limit: none, one file, the largest
\* selection that is accepted, the smallest that is not
UploadSizes == {0, 1, MAX_UPLOADS, MAX_UPLOADS + 1}

\* the steps of a session whose selections are at the limit
NextUpload ==
  \E s \in LedgerSessions :
    \/ SignedIn(s)
    \/ ListenerEffect(s)
    \/ ProfileSnapshot(s)
    \/ \E n \in UploadSizes : HandleFileChange(s, n)
    \/ HandleGenerate(s)
    \/ \E ok \in BOOLEAN : DebitSettles(s, ok)
    \/ \E ok \in BOOLEAN : EncodeSettles(s, ok)
    \/ \E o \in InferenceOutcomes : InferenceReturns(s, o)
    \/ \E ok \in BOOLEAN : AddDocSettles(s, ok)
    \/ \E ok \in BOOLEAN : RefundSettles(s, ok)

SpecUpload == InitTabs /\ [][NextUpload]_vars

\* C22: the upload batch never holds more than 5 images; a selection of more
\* than 5 files sets the too-many error and leaves the batch as it was; and
\* every execution of handleGenerate that issues or has issued its debit runs
\* on a batch of 1 to 5 images.
C22_UploadBatchAtMostFive ==
  /\ [](\A s \in Sessions :
          /\ Len(uploadedFiles[s]) <= 5
          /\ (gen[s].pc = "debit" \/ gen[s].debited)
             => Len(gen[s].files) >= 1 /\ Len(gen[s].files) <= 5)
  /\ [][\A s \in Sessions : \A n \in UploadSizes :
          (HandleFileChange(s, n) /\ n > 5)
          => /\ uploadedFiles' = uploadedFiles
             /\ error'[s] = <<"You can upload a maximum of 5 images.">>]_vars

\* C22 witness: an execution has debited for a batch of 5 images, and a
\* selection of 6 files made meanwhile was rejected: the error is shown and the
\* batch of 5 is still there
C22_Witness ==
  \E s \in Sessions :
    /\ gen[s].debited
    /\ Len(gen[s].files) = 5
    /\ Len(uploadedFiles[s]) = 5
    /\ error[s] = TooManyError


\* the calls of the execution g that were sent and have not returned
CallsInFlight(g) == g.calls - Len(g.yields)

\* C23: within one execution at most one inference call is in flight and at
\* most N calls are made for N uploads; the call in flight is the one for the
\* next upload in upload order, all calls before it having returned; a step
\* sends at most one call, and only when none is in flight or the one in flight
\* returns at that step; and once a call has failed it is the last one sent.
C23_CallsAreSequential ==
  /\ [](\A s \in Sessions :
          LET g == gen[s] IN
            /\ CallsInFlight(g) \in {0, 1}
            /\ g.calls <= Len(g.files)
            /\ (g.pc = "call") = (CallsInFlight(g) = 1)
            /\ g.pc = "call" => g.i = g.calls
            /\ \A k \in 1..Len(g.yields) :
                 g.yields[k] \in {"status", "transport"}
                 => k = g.calls /\ g.pc = "refund")
  /\ [][\A s \in Sessions :
          gen'[s].calls > gen[s].calls
          => /\ gen'[s].calls = gen[s].calls + 1
             /\ Len(gen'[s].yields) = gen[s].calls
             /\ \A k \in 1..Len(gen'[s].yields) : gen'[s].yields[k] \in {"image", "none"}]_vars

\* C23 witness: of 5 uploads the first two calls returned and the third failed;
\* three calls were sent and none is in flight
C23_Witness ==
  \E s \in Sessions :
    /\ Len(gen[s].files) = 5
    /\ gen[s].pc = "refund"
    /\ gen[s].calls = 3
    /\ gen[s].yields = <<"image", "none", "transport">>


\* C24: the refund write of an execution that has debited, when the store takes
\* it, sets the stored balance to the balance the session had cached when the
\* execution was invoked, which is the balance its debit wrote plus 50 --
\* whatever the store holds at that moment and whatever the session has cached
\* since; a balance another writer has written after the debit is overwritten.
C24_RefundWritesCachedBalance ==
  [][\A s \in Sessions :
       /\ (DebitSettles(s, TRUE) /\ profiles[gen[s].user] # Absent)
          => profiles'[gen[s].user].credits + 50 = gen[s].profile.credits
       /\ (RefundSettles(s, TRUE) /\ gen[s].debited /\ profiles[gen[s].user] # Absent)
          => /\ profiles'[gen[s].user].credits = gen[s].profile.credits
             /\ gen'[s].outcome = "refunded"]_vars

\* C24 witness: the execution of one tab failed at an inference call after its
\* debit and was refunded; the execution of the other tab, invoked with the
\* same cached balance, has debited in between and is still running, and the
\* stored balance is the pre-debit balance again: its debit was overwritten
C24_Witness ==
  \E s, t \in Sessions :
    /\ s # t
    /\ gen[t].outcome = "refunded"
    /\ error[t] = GenerationFailedError("Failed to fetch")
    /\ gen[s].pc \in InFlight
    /\ gen[s].debited
    /\ ~gen[s].alone
    /\ profiles[gen[s].user].credits = gen[s].profile.credits


\* ------------------------------------------------------------ termination
\* the ledger with single-file selections where every awaited store write,
\* encoding and inference call of handleGenerate eventually settles
SpecSettling ==
  /\ Init
  /\ [][NextProfile]_vars
  /\ \A s \in LedgerSessions :
       /\ WF_vars(\E ok \in BOOLEAN : DebitSettles(s, ok))
       /\ WF_vars(\E ok \in BOOLEAN : EncodeSettles(s, ok))
       /\ WF_vars(\E o \in InferenceOutcomes : InferenceReturns(s, o))
       /\ WF_vars(\E ok \in BOOLEAN : AddDocSettles(s, ok))
       /\ WF_vars(\E ok \in BOOLEAN : RefundSettles(s, ok))

\* C25: every execution of handleGenerate that has passed validation ends: it
\* returns either with its record persisted or out of its refund write (taken
\* or rejected by the store), and the step at which it returns leaves isLoading
\* false.
C25_GenerateTerminates ==
  /\ [][\A s \in Sessions :
          (gen[s].pc \in InFlight /\ gen'[s].pc = "idle")
          => /\ isLoading'[s] = FALSE
             /\ \/ gen'[s].outcome = "persisted" /\ gen[s].pc = "addDoc"
                \/ gen'[s].outcome \in {"refunded", "threw"} /\ gen[s].pc = "refund"]_vars
  /\ \A s \in LedgerSessions :
       (gen[s].pc \in InFlight)
       ~> (/\ gen[s].pc = "idle"
           /\ gen[s].outcome \in {"persisted", "refunded", "threw"}
           /\ ~isLoading[s])

\* C25 witness: an execution whose debit was rejected has gone through its
\* refund write and returned; isLoading is false and the balance still pays for
\* another attempt
C25_Witness ==
  \E s \in Sessions :
    /\ gen[s].pc = "idle"
    /\ gen[s].outcome = "refunded"
    /\ error[s] = GenerationFailedError(ErrorMessage("debit"))
    /\ ~isLoading[s]
    /\ Len(uploadedFiles[s]) = 1
    /\ profiles[user[s]] # Absent
    /\ profiles[user[s]].credits >= 50


\* ---------------------------------------------------------------- purchase
\* C26: handleBuyCredits runs only with a user signed in and issues one write
\* without touching the store before it settles; a write the store takes sets
\* the balance to the cached balance plus 50, a missing cached balance counting
\* as 0, so that with the cached balance equal to the stored one the stored
\* balance rises by exactly 50; a write that fails leaves the stored balance
\* as it is and shows the purchase error.
C26_PurchaseAddsFifty ==
  [][\A s \in Sessions :
       /\ HandleBuyCredits(s)
          => user[s] # NoUser /\ buy'[s].pc = "write" /\ profiles' = profiles
       /\ (BuyCreditsSettles(s, TRUE) /\ profiles[buy[s].user] # Absent)
          => /\ buy[s].profile = NullProfile => profiles'[buy[s].user].credits = 50
             /\ buy[s].profile # NullProfile
                => profiles'[buy[s].user].credits = buy[s].profile.credits + 50
             /\ (buy[s].profile # NullProfile
                 /\ buy[s].profile.credits = profiles[buy[s].user].credits)
                => profiles'[buy[s].user].credits = profiles[buy[s].user].credits + 50
             /\ error'[s] = error[s]
       /\ (buy[s].pc = "write" /\ buy'[s].pc = "idle"
           /\ ~(BuyCreditsSettles(s, TRUE) /\ profiles[buy[s].user] # Absent))
          => /\ profiles' = profiles
             /\ error'[s] = <<"Failed to add credits. Please try again.">>]_vars

\* C26 witness: a session that never generated had cached the stored balance 0
\* and bought: the store holds 50, the cache still 0, no error is shown
C26_Witness ==
  \E s \in Sessions :
    /\ user[s] # NoUser
    /\ gen[s].pc = "idle"
    /\ gen[s].outcome = "none"
    /\ buy[s].pc = "idle"
    /\ ~isLoading[s]
    /\ error[s] = NoError
    /\ profile[s] # NullProfile
    /\ profile[s].credits = 0
    /\ profiles[user[s]].credits = 50


\* ------------------------------------------- the ledger across identities
\* a mounted session and a store that holds the profile records of both
\* identities, the second with no credits
InitSwitch ==
  /\ user = [s \in Sessions |-> NoUser]
  /\ profile = [s \in Sessions |-> NullProfile]
  /\ uploadedFiles = [s \in Sessions |-> <<>>]
  /\ isLoading = [s \in Sessions |-> FALSE]
  /\ error = [s \in Sessions |-> NoError]
  /\ sub = [s \in Sessions |-> "off"]
  /\ creating = [s \in Sessions |-> NoUser]
  /\ \E c \in Balances :
       profiles = [u \in Users |-> IF u \in LedgerUsers THEN ProfileDoc(u, c) ELSE ProfileDoc(u, 0)]
  /\ generations = <<>>
  /\ gen = [s \in Sessions |-> IdleGen]
  /\ buy = [s \in Sessions |-> IdleBuy]
  /\ page = [s \in Sessions |-> "landing"]
  /\ isAuthLoading = [s \in Sessions |-> TRUE]
  /\ generatedImages = [s \in Sessions |-> <<>>]
  /\ subKey = [s \in Sessions |-> NoUser]
  /\ gseen = [s \in Sessions |-> -1]
  /\ auth = [s \in Sessions |-> IdleAuth]
  /\ text = [s \in Sessions |-> IdleText]

\* the steps of a session whose identity changes, driven from its dashboard
NextSwitch ==
  \E s \in LedgerSessions :
    \/ AuthChanges(s)
    \/ ListenerEffect(s)
    \/ ProfileSnapshot(s)
    \/ ChooseFiles(s, 1)
    \/ ClickBuy(s)
    \/ \E ok \in BOOLEAN : BuyCreditsSettles(s, ok)
    \/ ClickGenerate(s)
    \/ \E ok \in BOOLEAN : DebitSettles(s, ok)
    \/ \E ok \in BOOLEAN : EncodeSettles(s, ok)
    \/ \E o \in InferenceOutcomes : InferenceReturns(s, o)
    \/ \E ok \in BOOLEAN : AddDocSettles(s, ok)
    \/ \E ok \in BOOLEAN : RefundSettles(s, ok)

SpecSwitch == InitSwitch /\ [][NextSwitch]_vars

\* C27: whenever handleGenerate passes its checks, or handleBuyCredits computes
\* its write, for the current identity, the cached profile it reads is absent
\* or is the profile of that identity.
C27_CachedProfileIsOwn ==
  [][\A s \in Sessions :
       (\/ HandleGenerate(s) /\ gen'[s].pc \in InFlight
        \/ HandleBuyCredits(s))
       => (profile[s] = NullProfile \/ profile[s].userId = user[s])]_vars


\* --------------------------------------------- generating without a profile
\* C28: an execution of handleGenerate invoked with a non-empty upload batch
\* and no cached profile changes no profile record and sends no inference call;
\* in particular it does not replace the stored balance of an existing profile
\* by 0.
C28_NoWriteWithoutProfile ==
  [][\A s \in Sessions :
       (gen[s].pc \in InFlight /\ gen[s].profile = NullProfile /\ Len(gen[s].files) > 0)
       => /\ profiles' = profiles
          /\ gen'[s].calls = 0]_vars


\* ------------------------------------------------------ the credit account
\* the balance the identity starts with in InitPaid: the price of one generation
InitialBalance == GENERATION_COST

\* the profile record of the first identity holds the initial balance
InitPaid ==
  /\ Init
  /\ profiles["u1"] # Absent
  /\ profiles["u1"].credits = InitialBalance

\* the steps of two sessions (two tabs) of the same identity that generate from
\* single uploads and never buy
NextPaid ==
  \E s \in Sessions :
    \/ SignedIn(s)
    \/ ListenerEffect(s)
    \/ ProfileSnapshot(s)
    \/ ChooseFiles(s, 1)
    \/ ClickGenerate(s)
    \/ \E ok \in BOOLEAN : DebitSettles(s, ok)
    \/ \E ok \in BOOLEAN : EncodeSettles(s, ok)
    \/ \E o \in InferenceOutcomes : InferenceReturns(s, o)
    \/ \E ok \in BOOLEAN : AddDocSettles(s, ok)
    \/ \E ok \in BOOLEAN : RefundSettles(s, ok)

SpecPaid == InitPaid /\ [][NextPaid]_vars

\* the purchases completed under SpecPaid, which has no purchase step
CompletedPurchases == 0

\* C29: in every reachable state the stored balance plus 50 for every persisted
\* GenerationRecord of the identity is at most the initial balance plus 50 for
\* every completed purchase.
C29_NoFreeGeneration ==
  profiles["u1"].credits + 50 * Len(RecordsOf("u1"))
    <= InitialBalance + 50 * CompletedPurchases


\* ------------------------------------------------------- the loading flag
\* an execution of handleGenerate or handleBuyCredits of session s is in flight
LedgerBusy(s) == gen[s].pc \in InFlight \/ buy[s].pc = "write"

\* C30: while an execution of handleGenerate or handleBuyCredits of a session is
\* in flight, isLoading is true in that session and neither its generate button
\* nor its buy button can be clicked; a click that starts a handler finds no
\* execution of the session in flight; the two handlers are never in flight
\* together; and isLoading is true only while one of them is.
C30_LoadingIsMutex ==
  /\ [](\A s \in Sessions :
          /\ LedgerBusy(s) => (isLoading[s] /\ ~GenerateButton(s) /\ ~BuyButton(s))
          /\ isLoading[s] => LedgerBusy(s)
          /\ ~(gen[s].pc \in InFlight /\ buy[s].pc = "write"))
  /\ [][\A s \in Sessions :
          (ClickGenerate(s) \/ ClickBuy(s)) => (~LedgerBusy(s) /\ LedgerBusy(s)')]_vars

\* C30 witness: an execution of handleGenerate has debited and the snapshot of
\* the debited balance has arrived, so the buy button is rendered; a file is
\* chosen; isLoading alone keeps both buttons disabled
C30_Witness ==
  \E s \in Sessions :
    /\ gen[s].pc \in InFlight
    /\ gen[s].debited
    /\ isLoading[s]
    /\ profile[s] # NullProfile
    /\ profile[s].credits < 50
    /\ Len(uploadedFiles[s]) > 0
    /\ buy[s].pc = "idle"


\* ------------------------------------------------- the gallery and identity
\* Dashboard: the grid of generated images, rendered when the dashboard is shown
\* and the gallery cell is not empty
GalleryView(s) == IF Shown(s) = "dashboard" THEN generatedImages[s] ELSE <<>>

\* C31: in every state with a signed-in identity, every image of the gallery
\* shown occurs in some GenerationRecord of that identity; after one identity has
\* signed out and another has signed in, the gallery shows no image that occurs
\* only in the records of the first.
C31_GalleryIsOwn ==
  \A s \in Sessions :
    user[s] # NoUser
    => \A k \in 1..Len(GalleryView(s)) :
         \E r \in UserRecords(s) : GalleryView(s)[k] \in ImagesIn(r)

====
